---- MODULE Spec2Model ----
(***************************************************************************)
(* A model of the gibbscorrections package: the Molecule class             *)
(* (molecule.py), the OrcaJob class (orca_job.py) and the batch driver     *)
(* main() with print_results and get_energies (corrections.py).            *)
(*                                                                         *)
(* Text is modelled as a sequence of one-character strings, so that        *)
(* padding, justification and replacement are computed and not assumed.    *)
(* Floating point numbers are modelled as fixed-point integers:            *)
(* coordinates in units of 10^-7, energies in integer energy units.        *)
(***************************************************************************)
EXTENDS Integers, Sequences, FiniteSets, TLC

VARIABLES
    \* ---- one Molecule object and the outcome of the last call on it
    coordinates,      \* Molecule._coordinates
    elements_list,    \* Molecule._elements_list
    natoms,           \* Molecule._natoms
    mol_call,         \* the last call on the molecule: its name, argument, outcome and the state it found
    \* ---- one run of the batch driver, and the world it acts on
    orca_args,        \* the orca_args mapping every job of the batch shares
    input_files,      \* the -i arguments: a sequence of indices into LogLibrary
    computations,     \* main's list of OrcaJob objects
    pc,               \* where main is
    prior,            \* the files as they were when the program was started
    pool,             \* the worker pool, per job: its state, what the engine read, what run() found
    orca_results,     \* what pool.map returned
    scf_energies,     \* main's list of refined SCF energies
    dirs,             \* file system: the directories that exist
    files,            \* file system: path -> content
    cwd,              \* the main process's current directory
    invocations,      \* per job of this run: how often the external program was started for it
    error,            \* the exception that ended main and the stage that raised it
    runs              \* how many times the program has been started

molVars == <<coordinates, elements_list, natoms, mol_call>>
mainVars == <<orca_args, input_files, computations, pc, prior, pool, orca_results,
              scf_energies, dirs, files, cwd, invocations, error, runs>>
vars == <<molVars, mainVars>>

\* --------------------------------------------------------------------------
\* Bounds of the model
\* --------------------------------------------------------------------------
MaxAtoms == 2
MaxJobs == 2
MaxRuns == 2

\* --------------------------------------------------------------------------
\* Text helpers (Python str methods)
\* --------------------------------------------------------------------------
RECURSIVE Spaces(_)
Spaces(n) == IF n <= 0 THEN <<>> ELSE <<" ">> \o Spaces(n - 1)

RECURSIVE Fill(_, _)
Fill(ch, n) == IF n <= 0 THEN <<>> ELSE <<ch>> \o Fill(ch, n - 1)

\* str.ljust(width): pads on the right; a longer string is returned as it is
LJust(s, width) == s \o Spaces(width - Len(s))

\* str.rjust(width): pads on the left; a longer string is returned as it is
RJust(s, width) == Spaces(width - Len(s)) \o s

\* str.zfill(width): pads with zeros on the left (after a leading sign)
ZFill(s, width) ==
    IF Len(s) > 0 /\ s[1] \in {"+", "-"}
    THEN <<s[1]>> \o Fill("0", width - Len(s)) \o Tail(s)
    ELSE Fill("0", width - Len(s)) \o s

\* str.replace(old, new) for one-character old and new
Replace(s, old, new) == [i \in 1..Len(s) |-> IF s[i] = old THEN new ELSE s[i]]

\* " ".join(parts), "\t".join(parts), ...: parts is a sequence of texts
RECURSIVE Join(_, _)
Join(sep, parts) ==
    IF Len(parts) = 0 THEN <<>>
    ELSE IF Len(parts) = 1 THEN parts[1]
    ELSE parts[1] \o sep \o Join(sep, Tail(parts))

DigitChar(d) == CASE d = 0 -> "0" [] d = 1 -> "1" [] d = 2 -> "2" [] d = 3 -> "3"
                  [] d = 4 -> "4" [] d = 5 -> "5" [] d = 6 -> "6" [] d = 7 -> "7"
                  [] d = 8 -> "8" [] d = 9 -> "9"

RECURSIVE NatToText(_)
NatToText(n) == IF n < 10 THEN <<DigitChar(n)>>
                ELSE NatToText(n \div 10) \o <<DigitChar(n % 10)>>

Abs(x) == IF x < 0 THEN -x ELSE x

\* --------------------------------------------------------------------------
\* molecule.py
\* --------------------------------------------------------------------------

\* the format width of the element column and of a coordinate column
ElementWidth == 5
CoordinateWidth == 25
\* "{:.6f}": digits after the decimal point
Decimals == 6

\* cclib's PeriodicTable().element, on the atomic numbers the model uses
PeriodicTableElement(z) ==
    CASE z = 1 -> <<"H">> [] z = 6 -> <<"C">> [] z = 78 -> <<"P", "t">>

AtomicNumbers == {1, 6, 78}

\* A coordinate is an integer count of 10^-7: 7400000 is 0.74, -126981 is
\* -0.0126981 and 78125 is the exact tie 0.0078125.

\* "{:.6f}".format(s): the value rounded to Decimals decimals (half to even),
\* a sign for a negative value (also when it rounds to zero), the integer
\* part, a point, and exactly Decimals digits
Scale == 1000000
RoundHalfEven(a) ==
    LET q == a \div 10
        r == a % 10
    IN  IF r > 5 \/ (r = 5 /\ q % 2 = 1) THEN q + 1 ELSE q

Format6f(s) ==
    LET u == RoundHalfEven(Abs(s))
    IN  (IF s < 0 THEN <<"-">> ELSE <<>>)
        \o NatToText(u \div Scale) \o <<".">>
        \o ZFill(NatToText(u % Scale), Decimals)

\* Molecule.__init__: raises ValueError when the lengths differ
MoleculeInitOk(coords, elems) == Len(coords) = Len(elems)
NewMolecule(coords, elems) ==
    [coordinates |-> coords, elements_list |-> elems, natoms |-> Len(elems)]

\* Molecule.xyz_geometry on (coordinates, elements_list): the list of lines,
\* or IndexError when elements_list is shorter than coordinates
GeometryLine(elem, atom) ==
    Join(<<" ">>, <<LJust(PeriodicTableElement(elem), ElementWidth)>>
                  \o [k \in 1..Len(atom) |-> RJust(Format6f(atom[k]), CoordinateWidth)])

XyzGeometryRaises(coords, elems) == Len(elems) < Len(coords)

XyzGeometry(coords, elems) ==
    [i \in 1..Len(coords) |-> GeometryLine(elems[i], coords[i])]

\* The atoms and the sequences the model draws a molecule's fields from
Atoms == {<<0, 0, 0>>, <<0, 0, 7400000>>, <<-126981, 10858042, 78125>>}

RECURSIVE SeqsUpTo(_, _)
SeqsUpTo(S, n) ==
    IF n = 0 THEN {<<>>}
    ELSE LET shorter == SeqsUpTo(S, n - 1)
         IN  shorter \cup {Append(q, x) : q \in {t \in shorter : Len(t) = n - 1}, x \in S}

CoordinateLists == SeqsUpTo(Atoms, MaxAtoms)
ElementLists == SeqsUpTo(AtomicNumbers, MaxAtoms)

\* what a call on the molecule did: its name, the length of its argument,
\* the exception it raised ("none" when it returned) and the lines it returned
Call(op, arglen, raised, lines) ==
    [op |-> op, arglen |-> arglen, raised |-> raised, lines |-> lines]

\* the state of the batch driver while only the molecule is exercised
MainIdle ==
    /\ orca_args = <<>>
    /\ input_files = <<>>
    /\ computations = <<>>
    /\ pc = "idle"
    /\ prior = <<>>
    /\ pool = <<>>
    /\ orca_results = <<>>
    /\ scf_energies = <<>>
    /\ dirs = {}
    /\ files = <<>>
    /\ cwd = <<>>
    /\ invocations = <<>>
    /\ error = [stage |-> "none", raised |-> "none"]
    /\ runs = 0

\* Molecule(coordinates, elements_list) returned: the lengths were equal
MolInit ==
    /\ \E coords \in CoordinateLists, elems \in ElementLists :
          /\ MoleculeInitOk(coords, elems)
          /\ coordinates = NewMolecule(coords, elems).coordinates
          /\ elements_list = NewMolecule(coords, elems).elements_list
          /\ natoms = NewMolecule(coords, elems).natoms
    /\ mol_call = Call("__init__", natoms, "none", <<>>)
    /\ MainIdle

\* the coordinates setter's test: the new value is as long as natoms
CoordinatesSetterAccepts(value) == Len(value) = natoms

\* molecule.coordinates = value
SetCoordinates(value) ==
    /\ IF CoordinatesSetterAccepts(value)
       THEN /\ coordinates' = value
            /\ mol_call' = Call("coordinates", Len(value), "none", <<>>)
       ELSE /\ coordinates' = coordinates
            /\ mol_call' = Call("coordinates", Len(value), "ValueError", <<>>)
    /\ UNCHANGED <<elements_list, natoms, mainVars>>

\* the elements_list setter's test: the new value is as long as natoms
ElementsListSetterAccepts(value) == Len(value) = natoms

\* molecule.elements_list = value
SetElementsList(value) ==
    /\ IF ElementsListSetterAccepts(value)
       THEN /\ elements_list' = value
            /\ mol_call' = Call("elements_list", Len(value), "none", <<>>)
       ELSE /\ elements_list' = elements_list
            /\ mol_call' = Call("elements_list", Len(value), "ValueError", <<>>)
    /\ UNCHANGED <<coordinates, natoms, mainVars>>

\* molecule.natoms = value: the setter stores any value, it has no test
SetNatoms(value) ==
    /\ natoms' = value
    /\ mol_call' = Call("natoms", value, "none", <<>>)
    /\ UNCHANGED <<coordinates, elements_list, mainVars>>

\* molecule.xyz_geometry(): reads the two lists, changes nothing
CallXyzGeometry ==
    /\ IF XyzGeometryRaises(coordinates, elements_list)
       THEN mol_call' = Call("xyz_geometry", 0, "IndexError", <<>>)
       ELSE mol_call' = Call("xyz_geometry", 0, "none",
                             XyzGeometry(coordinates, elements_list))
    /\ UNCHANGED <<coordinates, elements_list, natoms, mainVars>>

MolNext ==
    \/ \E value \in CoordinateLists : SetCoordinates(value)
    \/ \E value \in ElementLists : SetElementsList(value)
    \/ \E value \in 0..MaxAtoms : SetNatoms(value)
    \/ CallXyzGeometry

\* the Molecule class under any sequence of calls
SpecMol == MolInit /\ [][MolNext]_vars

\* --------------------------------------------------------------------------
\* orca_job.py: the OrcaJob class
\* --------------------------------------------------------------------------

\* Python's None, and an optional number: <<>> for None, <<v>> for v
None == "None"
NoNumber == <<>>
Number(v) == <<v>>

\* Path().cwd() when the program starts: the base directory of every job
BaseDir == <<"/base">>

\* os.path.join(a, b) for a relative b
PathJoin(a, b) == a \o <<"/">> \o b

\* OrcaJob.__init__
OrcaJob(basedir, name, molecule, job_id, args) ==
    [name |-> name,
     molecule |-> molecule,
     job_id |-> job_id,
     basedir |-> basedir,
     filenames |-> [input |-> Replace(name, " ", "_") \o <<".inp">>,
                    output |-> Replace(name, " ", "_") \o <<".out">>],
     orca_args |-> args]

\* OrcaJob.path: basedir/my_name.00job_id
JobIdWidth == 8
JobPath(job) ==
    PathJoin(job.basedir,
             Replace(job.name, " ", "_") \o <<".">> \o ZFill(job.job_id, JobIdWidth))

\* the files of a job, as the job names them after os.chdir(self.path)
InputFile(job) == PathJoin(JobPath(job), job.filenames.input)
OutputFile(job) == PathJoin(JobPath(job), job.filenames.output)

\* a dictionary lookup d[key] raises KeyError when the key is absent
HasKey(d, key) == key \in DOMAIN d

\* OrcaJob.build_header raises KeyError when orca_args has no "dispersion"
BuildHeaderRaises(job) == ~HasKey(job.orca_args, "dispersion")

\* OrcaJob.build_header: a list of lines
BuildHeader(job) ==
    LET route == <<"# ", job.orca_args.functional, " ">>
                 \o (IF job.orca_args.dispersion # None
                     THEN <<"EmpiricalDispersion=", job.orca_args.dispersion, " ">>
                     ELSE <<>>)
                 \o <<"gen freq">>
    IN  <<  <<"%NProcShared=1">>, route, <<>>, job.name, <<>>, <<"0 1">>  >>

\* list(set(elements_list)): the distinct elements. The model's molecules
\* hold atomic numbers whose hashes do not collide, for which CPython lists
\* a set of small integers in ascending order.
RECURSIVE Ascending(_)
Ascending(S) ==
    IF S = {} THEN <<>>
    ELSE LET m == CHOOSE x \in S : \A y \in S : x <= y
         IN  <<m>> \o Ascending(S \ {m})

Range(f) == {f[i] : i \in DOMAIN f}

\* OrcaJob.build_footer: a list of lines
BuildFooter(job) ==
    LET distinct == Ascending(Range(job.molecule.elements_list))
        elements == Join(<<" ">>, [i \in 1..Len(distinct) |-> PeriodicTableElement(distinct[i])])
    IN  <<  elements \o <<" 0">>, <<job.orca_args.basisset>>, <<"****">>, <<>>  >>

\* OrcaJob.build_input_script raises what build_header or xyz_geometry raises
BuildInputScriptRaises(job) ==
    IF BuildHeaderRaises(job) THEN "KeyError"
    ELSE IF XyzGeometryRaises(job.molecule.coordinates, job.molecule.elements_list)
         THEN "IndexError"
         ELSE "none"

\* OrcaJob.build_input_script: header, geometry, blank line, footer, two blank lines
BuildInputScript(job) ==
    BuildHeader(job)
    \o XyzGeometry(job.molecule.coordinates, job.molecule.elements_list)
    \o << <<>> >>
    \o BuildFooter(job)
    \o << <<>>, <<>> >>

\* ---- the file system: the directories that exist and the files' contents.
\* A file's content is a record; a text file holds its lines ("\n".join).
FileExists(fs, path) == path \in DOMAIN fs.files
WriteFile(fs, path, content) ==
    [fs EXCEPT !.files = (path :> content) @@ fs.files]
MakeDirs(fs, path) == [fs EXCEPT !.dirs = fs.dirs \cup {path}]
ChDir(fs, path) == [fs EXCEPT !.cwd = path]

EmptyFile == [kind |-> "empty"]
ScriptFile(lines) == [kind |-> "script", lines |-> lines]

\* OrcaJob.setup_computation in file system fs: the file system it leaves
\* and the exception it raised ("none" when it returned). open(.., "w")
\* creates or truncates the input file before the script is built, and an
\* exception leaves the process in the job's directory.
SetupComputation(fs, job) ==
    LET made == MakeDirs(fs, JobPath(job))
        inside == ChDir(made, JobPath(job))
        opened == WriteFile(inside, InputFile(job), EmptyFile)
        raised == BuildInputScriptRaises(job)
    IN  IF raised # "none"
        THEN [fs |-> opened, raised |-> raised]
        ELSE [fs |-> ChDir(WriteFile(opened, InputFile(job),
                                     ScriptFile(BuildInputScript(job))),
                           job.basedir),
              raised |-> "none"]

\* ---- the external program, started by os.system("g16 < input > output")

\* the geometry lines of an input script: what lies between the six header
\* lines and the seven lines that follow the geometry
HeaderLines == 6
TrailerLines == 7
GeometryOf(lines) == SubSeq(lines, HeaderLines + 1, Len(lines) - TrailerLines)

\* the output of a run that ended normally, of one that was ended after the
\* energies were written and before the last line (the marker), and of one
\* that ended in an error before any energy
NormalOutput(energy) == [kind |-> "output", marker |-> TRUE, scfenergy |-> Number(energy)]
InterruptedOutput(energy) == [kind |-> "output", marker |-> FALSE, scfenergy |-> Number(energy)]
ErrorOutput == [kind |-> "output", marker |-> FALSE, scfenergy |-> NoNumber]
GarbledOutput == [kind |-> "garbled"]

\* the success marker: the output exists and holds the "terminated normally" line
HasMarker(fs, path) ==
    /\ FileExists(fs, path)
    /\ fs.files[path].kind = "output"
    /\ fs.files[path].marker

\* OrcaJob.run, its first half, in a pool worker: os.chdir(self.path) raises
\* FileNotFoundError when the directory is missing; then the shell opens the
\* input (and gives up when it is missing), truncates the output and starts
\* the program. There is no test of a prior run's output.
RunRaises(fs, job) == JobPath(job) \notin fs.dirs
ShellStartsProgram(fs, job) == FileExists(fs, InputFile(job))
\* ccread(output): cclib returns the energies an output holds, whether or
\* not the output ends with the marker; where the output holds none, the
\* attributes get_energies reads are missing
Parseable(fs, path) ==
    /\ FileExists(fs, path)
    /\ fs.files[path].kind = "output"
    /\ fs.files[path].scfenergy # NoNumber

\* OrcaJob.get_energies: the process stays in the job's directory
GetEnergies(fs, job) ==
    LET inside == ChDir(fs, JobPath(job))
    IN  IF JobPath(job) \notin fs.dirs
        THEN [fs |-> fs, raised |-> "FileNotFoundError", scfenergy |-> NoNumber]
        ELSE IF ~Parseable(inside, OutputFile(job))
        THEN [fs |-> inside, raised |-> "AttributeError", scfenergy |-> NoNumber]
        ELSE [fs |-> inside, raised |-> "none",
              scfenergy |-> inside.files[OutputFile(job)].scfenergy]

\* --------------------------------------------------------------------------
\* corrections.py: the batch driver
\* --------------------------------------------------------------------------

\* The Gaussian log files the -i arguments can name: where each lies, its
\* stem, and what cclib reads from it (final geometry, atomic numbers,
\* energies; a log without a frequency job has no enthalpy or free energy).
LogLibrary ==
    << [dir |-> <<"d1">>, stem |-> <<"a">>,
        atomcoords |-> << <<0, 0, 0>>, <<0, 0, 7400000>> >>, atomnos |-> <<1, 1>>,
        scfenergy |-> -100, enthalpy |-> Number(-95), freeenergy |-> Number(-97)],
       [dir |-> <<"d2">>, stem |-> <<"a">>,
        atomcoords |-> << <<-126981, 10858042, 78125>> >>, atomnos |-> <<78>>,
        scfenergy |-> -200, enthalpy |-> Number(-190), freeenergy |-> Number(-193)],
       [dir |-> <<"d1">>, stem |-> <<"b", " ", "c">>,
        atomcoords |-> << <<0, 0, 0>>, <<-1, 0, 7400000>> >>, atomnos |-> <<6, 1>>,
        scfenergy |-> -300, enthalpy |-> Number(-296), freeenergy |-> Number(-299)],
       [dir |-> <<"d1">>, stem |-> <<"d">>,
        atomcoords |-> << <<0, 0, 0>> >>, atomnos |-> <<1>>,
        scfenergy |-> -50, enthalpy |-> NoNumber, freeenergy |-> NoNumber] >>

\* the sequences of 1..n log files
RECURSIVE FileLists(_)
FileLists(n) ==
    IF n = 0 THEN {<<>>}
    ELSE LET shorter == FileLists(n - 1)
         IN  shorter \cup {Append(q, x) : q \in {t \in shorter : Len(t) = n - 1},
                                           x \in DOMAIN LogLibrary}

\* the external program is a function of the geometry it is given: the
\* energy it computes for the geometry of each log file
RefinedEnergy == <<-101, -202, -303, -54>>
EngineEnergy(geometry) ==
    LET k == CHOOSE k \in DOMAIN LogLibrary :
                 XyzGeometry(LogLibrary[k].atomcoords, LogLibrary[k].atomnos) = geometry
    IN  RefinedEnergy[k]

\* get_coordinates, get_atom_lists, get_file_name (Path(file).stem)
GetCoordinates(f) == LogLibrary[f].atomcoords
GetAtomLists(f) == LogLibrary[f].atomnos
GetFileName(f) == LogLibrary[f].stem

\* "if file.enthalpy:" holds for a number that is not zero
Truthy(x) == x # NoNumber /\ x[1] # 0

\* get_energies(comp_file): dict.fromkeys leaves None where nothing is found
GetLogEnergies(f) ==
    LET file == LogLibrary[f]
    IN  [scfenergy |-> Number(file.scfenergy),
         enthalpy |-> IF Truthy(file.enthalpy) THEN file.enthalpy ELSE NoNumber,
         freeenergy |-> IF Truthy(file.freeenergy) THEN file.freeenergy ELSE NoNumber,
         enthalpy_correction |->
             IF Truthy(file.enthalpy)
             THEN Number(file.enthalpy[1] - file.scfenergy) ELSE NoNumber,
         freeenergy_correction |->
             IF Truthy(file.freeenergy)
             THEN Number(file.freeenergy[1] - file.scfenergy) ELSE NoNumber]

\* the orca_args of a batch. main keeps the keys functional, basisset and
\* solvent of the command line (solvent is None without -s); a caller that
\* builds OrcaJob objects itself passes the mapping it likes.
MainOrcaArgs ==
    {[functional |-> "wB97M-V", basisset |-> "Def2-TZVPP", solvent |-> sv] :
        sv \in {None, "water"}}
CallerOrcaArgs ==
    {[functional |-> "wB97M-V", basisset |-> "Def2-TZVPP", solvent |-> sv,
      dispersion |-> d] : sv \in {None, "water"}, d \in {None, "GD3"}}
BuiltByMain == orca_args \in MainOrcaArgs

\* the -o argument: a relative path
OutputFileArg == <<"results.tsv">>

FS == [dirs |-> dirs, files |-> files, cwd |-> cwd]
NoError == [stage |-> "none", raised |-> "none"]
Raised(stage, exc) == [stage |-> stage, raised |-> exc]

\* the program is started in the base directory, on the files a prior run left
Init ==
    /\ coordinates = <<>> /\ elements_list = <<>> /\ natoms = 0
    /\ mol_call = Call("none", 0, "none", <<>>)
    /\ orca_args \in MainOrcaArgs \cup CallerOrcaArgs
    /\ input_files \in FileLists(MaxJobs) \ {<<>>}
    /\ computations = <<>>
    /\ pc = "construct"
    /\ prior = <<>>
    /\ pool = <<>>
    /\ orca_results = <<>>
    /\ scf_energies = <<>>
    /\ dirs = {BaseDir}
    /\ files = <<>>
    /\ cwd = BaseDir
    /\ invocations = <<>>
    /\ error = NoError
    /\ runs = 1

\* main, lines 38-60: parse the logs, build the molecules and the jobs
MainConstruct ==
    /\ pc = "construct"
    /\ computations' =
          [i \in 1..Len(input_files) |->
              OrcaJob(BaseDir, GetFileName(input_files[i]),
                      NewMolecule(GetCoordinates(input_files[i]), GetAtomLists(input_files[i])),
                      GetFileName(input_files[i]), orca_args)]
    /\ pc' = "setup"
    /\ UNCHANGED <<molVars, orca_args, input_files, prior, pool, orca_results, scf_energies,
                   dirs, files, cwd, invocations, error, runs>>

\* [job.setup_computation() for job in computations], from job i on: the
\* first exception ends the loop
RECURSIVE SetupAll(_, _, _)
SetupAll(fs, jobs, i) ==
    IF i > Len(jobs) THEN [fs |-> fs, raised |-> "none"]
    ELSE LET one == SetupComputation(fs, jobs[i])
         IN  IF one.raised # "none" THEN one ELSE SetupAll(one.fs, jobs, i + 1)

\* a job in the pool: where its run() is, what the external program read,
\* and whether the output held the success marker when run() was called
\* (found_marker) and when run() returned (left_marker)
QueuedJob == [state |-> "queued", stdin |-> EmptyFile,
              found_marker |-> FALSE, left_marker |-> FALSE]

\* main, line 63: write the input files; an exception ends the program
MainSetup ==
    /\ pc = "setup"
    /\ LET done == SetupAll(FS, computations, 1)
       IN  /\ dirs' = done.fs.dirs
           /\ files' = done.fs.files
           /\ cwd' = done.fs.cwd
           /\ IF done.raised # "none"
              THEN /\ pc' = "crashed"
                   /\ error' = Raised("setup", done.raised)
                   /\ UNCHANGED <<pool, invocations>>
              ELSE /\ pc' = "pool"
                   /\ error' = error
                   /\ pool' = [i \in 1..Len(computations) |-> QueuedJob]
                   /\ invocations' = [i \in 1..Len(computations) |-> 0]
    /\ UNCHANGED <<molVars, orca_args, input_files, computations, prior, orca_results,
                   scf_energies, runs>>

\* ---- pool.map(run_jobs, computations): every job's run() in a worker
\* process of its own, in any order and overlapping in time

\* a worker takes job i: run() as far as the start of the external program
RunStart(i) ==
    /\ pc = "pool"
    /\ pool[i].state = "queued"
    /\ LET job == computations[i]
       IN  IF RunRaises(FS, job)
           THEN /\ pool' = [pool EXCEPT ![i].state = "raised"]
                /\ UNCHANGED <<files, invocations>>
           ELSE IF ~ShellStartsProgram(FS, job)
           THEN /\ pool' = [pool EXCEPT ![i] = [state |-> "returned",
                                                  stdin |-> EmptyFile,
                                                  found_marker |-> HasMarker(FS, OutputFile(job)),
                                                  left_marker |-> HasMarker(FS, OutputFile(job))]]
                /\ UNCHANGED <<files, invocations>>
           ELSE /\ pool' = [pool EXCEPT ![i] = [state |-> "running",
                                                  stdin |-> files[InputFile(job)],
                                                  found_marker |-> HasMarker(FS, OutputFile(job)),
                                                  left_marker |-> FALSE]]
                /\ files' = WriteFile(FS, OutputFile(job), EmptyFile).files
                /\ invocations' = [invocations EXCEPT ![i] = @ + 1]
    /\ UNCHANGED <<molVars, orca_args, input_files, computations, pc, prior, orca_results,
                   scf_energies, dirs, cwd, error, runs>>

\* what the external program can leave in the output: for an input script,
\* the energy of its geometry (normal termination, or ended before the last
\* line) or an error termination; when another job of the pool writes the
\* same output file, a mix of both
SharesOutput(i) ==
    \E j \in DOMAIN computations :
        /\ j # i
        /\ OutputFile(computations[j]) = OutputFile(computations[i])
        /\ invocations[j] > 0
EngineOutputs(i) ==
    (IF pool[i].stdin.kind = "script"
     THEN {NormalOutput(EngineEnergy(GeometryOf(pool[i].stdin.lines))),
           InterruptedOutput(EngineEnergy(GeometryOf(pool[i].stdin.lines))),
           ErrorOutput}
     ELSE {ErrorOutput})
    \cup (IF SharesOutput(i) THEN {GarbledOutput} ELSE {})

\* the external program of job i ends; run() returns None whatever the exit
\* status or the output
RunFinish(i) ==
    /\ pc = "pool"
    /\ pool[i].state = "running"
    /\ \E output \in EngineOutputs(i) :
          /\ files' = WriteFile(FS, OutputFile(computations[i]), output).files
          /\ pool' = [pool EXCEPT ![i].state = "returned",
                                  ![i].left_marker = (output.kind = "output" /\ output.marker)]
    /\ UNCHANGED <<molVars, orca_args, input_files, computations, pc, prior, orca_results,
                   scf_energies, dirs, cwd, invocations, error, runs>>

\* a map that returns as soon as one job has returned
PoolMapReturnsEarly ==
    /\ pc = "pool"
    /\ \E i \in DOMAIN pool : pool[i].state = "returned"
    /\ pc' = "collect"
    /\ orca_results' = computations
    /\ UNCHANGED <<molVars, orca_args, input_files, computations, prior, pool, scf_energies,
                   dirs, files, cwd, invocations, error, runs>>

\* pool.map returns, once every job has returned, the jobs in the order of
\* its argument; a job's exception is raised in main
PoolMapReturn ==
    /\ pc = "pool"
    /\ \A i \in DOMAIN pool : pool[i].state \in {"returned", "raised"}
    /\ IF \E i \in DOMAIN pool : pool[i].state = "raised"
       THEN /\ pc' = "crashed"
            /\ error' = Raised("pool", "FileNotFoundError")
            /\ UNCHANGED orca_results
       ELSE /\ pc' = "collect"
            /\ orca_results' = computations
            /\ UNCHANGED error
    /\ UNCHANGED <<molVars, orca_args, input_files, computations, prior, pool, scf_energies,
                   dirs, files, cwd, invocations, runs>>

\* [result.get_energies()["scfenergy"] for result in orca_results], from
\* job i on: the first exception ends the loop
RECURSIVE CollectAll(_, _, _, _)
CollectAll(fs, jobs, i, energies) ==
    IF i > Len(jobs) THEN [fs |-> fs, raised |-> "none", energies |-> energies]
    ELSE LET one == GetEnergies(fs, jobs[i])
         IN  IF one.raised # "none"
             THEN [fs |-> one.fs, raised |-> one.raised, energies |-> energies]
             ELSE CollectAll(one.fs, jobs, i + 1, Append(energies, one.scfenergy[1]))

\* main, line 70: retrieve the SCF energies; an exception ends the program
MainCollect ==
    /\ pc = "collect"
    /\ LET got == CollectAll(FS, orca_results, 1, <<>>)
       IN  /\ cwd' = got.fs.cwd
           /\ IF got.raised # "none"
              THEN /\ pc' = "crashed"
                   /\ error' = Raised("collect", got.raised)
                   /\ UNCHANGED scf_energies
              ELSE /\ pc' = "print"
                   /\ scf_energies' = got.energies
                   /\ UNCHANGED error
    /\ UNCHANGED <<molVars, orca_args, input_files, computations, prior, pool, orca_results,
                   dirs, files, invocations, runs>>

\* ---- print_results

\* str(x) of a number
IntToText(n) == IF n < 0 THEN <<"-">> \o NatToText(-n) ELSE NatToText(n)

\* cclib's convertor(val, "eV", "kcal/mol"): a multiplication by 23.06; the
\* model's result counts hundredths of kcal/mol
EvToKcalMol == 2306
Convertor(val) == val * EvToKcalMol

ReportHeader ==
    <<"Name\tGaussian SCF\tGaussian H\tGaussian G\tOrca SCF\tOrca H\tOrca G">>

\* one pass of the loop of print_results: the six energies of a row. A
\* correction or an energy that is None raises TypeError.
RowRaises(gaussian_energies) ==
    \/ gaussian_energies.freeenergy_correction = NoNumber
    \/ gaussian_energies.enthalpy_correction = NoNumber
    \/ gaussian_energies.enthalpy = NoNumber
    \/ gaussian_energies.freeenergy = NoNumber

\* the slip of adding the free energy correction to the enthalpy as well
RowEnergiesOneCorrection(orca_energy, gaussian_energies) ==
    LET orca_freeenergy == orca_energy + gaussian_energies.freeenergy_correction[1]
        orca_enthalpy == orca_energy + gaussian_energies.freeenergy_correction[1]
    IN  <<gaussian_energies.scfenergy[1], gaussian_energies.enthalpy[1],
          gaussian_energies.freeenergy[1], orca_energy, orca_enthalpy, orca_freeenergy>>

RowEnergies(orca_energy, gaussian_energies) ==
    LET orca_freeenergy == orca_energy + gaussian_energies.freeenergy_correction[1]
        orca_enthalpy == orca_energy + gaussian_energies.enthalpy_correction[1]
    IN  <<gaussian_energies.scfenergy[1], gaussian_energies.enthalpy[1],
          gaussian_energies.freeenergy[1], orca_energy, orca_enthalpy, orca_freeenergy>>

RowLine(name, orca_energy, gaussian_energies) ==
    LET energies == RowEnergies(orca_energy, gaussian_energies)
        energies_kcal == [k \in 1..Len(energies) |-> IntToText(Convertor(energies[k]))]
    IN  name \o <<"\t">> \o Join(<<"\t">>, energies_kcal)

Min(a, b) == IF a < b THEN a ELSE b

\* the lines written for the rows from i on; zip ends with its shortest
\* argument, and the first exception ends the loop
RECURSIVE ReportRows(_, _, _, _)
ReportRows(list_filenames, energies, list_energies, i) ==
    IF i > Min(Len(list_filenames), Min(Len(energies), Len(list_energies)))
    THEN [lines |-> <<>>, raised |-> "none"]
    ELSE IF RowRaises(list_energies[i])
    THEN [lines |-> <<>>, raised |-> "TypeError"]
    ELSE LET rest == ReportRows(list_filenames, energies, list_energies, i + 1)
         IN  [lines |-> <<RowLine(list_filenames[i], energies[i], list_energies[i])>>
                        \o rest.lines,
              raised |-> rest.raised]

ReportFile(lines) == [kind |-> "report", lines |-> lines]

\* print_results(out_file, scf_energies, list_energies, list_filenames):
\* open(out_file, "w") truncates the file, named relative to the current
\* directory; the header and the rows written before an exception stay
PrintResults(fs, out_file, energies, list_energies, list_filenames) ==
    LET rows == ReportRows(list_filenames, energies, list_energies, 1)
    IN  [fs |-> WriteFile(fs, PathJoin(fs.cwd, out_file),
                          ReportFile(<<ReportHeader>> \o rows.lines)),
         raised |-> rows.raised]

ListEnergies == [i \in 1..Len(input_files) |-> GetLogEnergies(input_files[i])]
ListFilenames == [i \in 1..Len(input_files) |-> GetFileName(input_files[i])]

\* main, line 73: write the report; an exception ends the program
MainPrint ==
    /\ pc = "print"
    /\ LET printed == PrintResults(FS, OutputFileArg, scf_energies, ListEnergies, ListFilenames)
       IN  /\ files' = printed.fs.files
           /\ IF printed.raised # "none"
              THEN /\ pc' = "crashed"
                   /\ error' = Raised("print", printed.raised)
              ELSE /\ pc' = "done"
                   /\ UNCHANGED error
    /\ UNCHANGED <<molVars, orca_args, input_files, computations, prior, pool, orca_results,
                   scf_energies, dirs, cwd, invocations, runs>>

\* the program is started again with the same arguments, in the base
\* directory, on the files the run before left
MainStart ==
    /\ pc \in {"done", "crashed"}
    /\ runs < MaxRuns
    /\ runs' = runs + 1
    /\ pc' = "construct"
    /\ prior' = files
    /\ cwd' = BaseDir
    /\ computations' = <<>>
    /\ pool' = <<>>
    /\ orca_results' = <<>>
    /\ scf_energies' = <<>>
    /\ invocations' = <<>>
    /\ error' = NoError
    /\ UNCHANGED <<molVars, orca_args, input_files, dirs, files>>

Next ==
    \/ MainConstruct
    \/ MainSetup
    \/ \E i \in DOMAIN pool : RunStart(i)
    \/ \E i \in DOMAIN pool : RunFinish(i)
    \/ PoolMapReturn
    \/ MainCollect
    \/ MainPrint
    \/ MainStart

\* the batch driver, run up to MaxRuns times on the same arguments
Spec == Init /\ [][Next]_vars

\* ---- print_results as a function of its arguments: the refined energies
\* are drawn from RefinedValues, the log energies and names from the log files
RefinedValues == {-101, -202, 7}
EnergyLists == SeqsUpTo(RefinedValues, MaxJobs)

\* what print_results finds at the output path: nothing, or the report an
\* earlier run wrote
OldReport == ReportFile(<<ReportHeader, <<"old", "\t", "-1">> >>)
FilesBeforeReport == {<<>>, PathJoin(BaseDir, OutputFileArg) :> OldReport}

ReportInit ==
    /\ coordinates = <<>> /\ elements_list = <<>> /\ natoms = 0
    /\ mol_call = Call("none", 0, "none", <<>>)
    /\ orca_args \in CallerOrcaArgs
    /\ input_files \in FileLists(MaxJobs)
    /\ computations = <<>>
    /\ pc = "print"
    /\ files \in FilesBeforeReport
    /\ prior = files
    /\ pool = <<>>
    /\ orca_results = <<>>
    /\ scf_energies \in EnergyLists
    /\ dirs = {BaseDir}
    /\ cwd = BaseDir
    /\ invocations = <<>>
    /\ error = NoError
    /\ runs = 1

SpecReport == ReportInit /\ [][MainPrint]_vars

\* ---- OrcaJob objects a caller builds itself and changes through the
\* name, job_id and basedir setters
JobNames == {<<"a">>, <<"b", " ", "c">>}
JobIds == {<<"1">>, <<"2">>, <<"b", " ", "c">>}
BaseDirs == {BaseDir, <<"/scratch">>}
JobMolecule == NewMolecule(LogLibrary[1].atomcoords, LogLibrary[1].atomnos)
JobOrcaArgs == [functional |-> "wB97M-V", basisset |-> "Def2-TZVPP", solvent |-> None,
                dispersion |-> None]
BuiltJobs ==
    {OrcaJob(b, n, JobMolecule, id, JobOrcaArgs) : b \in BaseDirs, n \in JobNames, id \in JobIds}

\* two jobs have been built
JobInit ==
    /\ coordinates = <<>> /\ elements_list = <<>> /\ natoms = 0
    /\ mol_call = Call("none", 0, "none", <<>>)
    /\ orca_args = JobOrcaArgs
    /\ input_files = <<>>
    /\ computations \in [1..2 -> BuiltJobs]
    /\ pc = "idle"
    /\ prior = <<>>
    /\ pool = <<>>
    /\ orca_results = <<>>
    /\ scf_energies = <<>>
    /\ dirs = {BaseDir}
    /\ files = <<>>
    /\ cwd = BaseDir
    /\ invocations = <<>>
    /\ error = NoError
    /\ runs = 0

\* job.name = value: filenames keeps what __init__ computed
SetName(i, value) ==
    /\ pc = "idle"
    /\ computations' = [computations EXCEPT ![i].name = value]
    /\ UNCHANGED <<molVars, orca_args, input_files, pc, prior, pool, orca_results,
                   scf_energies, dirs, files, cwd, invocations, error, runs>>

\* job.job_id = value
SetJobId(i, value) ==
    /\ pc = "idle"
    /\ computations' = [computations EXCEPT ![i].job_id = value]
    /\ UNCHANGED <<molVars, orca_args, input_files, pc, prior, pool, orca_results,
                   scf_energies, dirs, files, cwd, invocations, error, runs>>

\* job.basedir = value
SetBasedir(i, value) ==
    /\ pc = "idle"
    /\ computations' = [computations EXCEPT ![i].basedir = value]
    /\ UNCHANGED <<molVars, orca_args, input_files, pc, prior, pool, orca_results,
                   scf_energies, dirs, files, cwd, invocations, error, runs>>

JobNext ==
    \/ \E i \in DOMAIN computations, value \in JobNames : SetName(i, value)
    \/ \E i \in DOMAIN computations, value \in JobIds : SetJobId(i, value)
    \/ \E i \in DOMAIN computations, value \in BaseDirs : SetBasedir(i, value)

\* OrcaJob objects under any sequence of setter calls
SpecJob == JobInit /\ [][JobNext]_vars

\* --------------------------------------------------------------------------
\* Claims about the Molecule class (checked under SpecMol)
\* --------------------------------------------------------------------------

\* C1: after any sequence of mutations through the setters (coordinates,
\* elements_list, natoms), len(coordinates) = len(elements_list) = natoms.
C1_SizeInvariant ==
    /\ Len(coordinates) = Len(elements_list)
    /\ Len(elements_list) = natoms

\* C1, its second sentence: a setter called with a sequence whose length
\* differs from the atom count raises and changes nothing. (This half holds
\* when "the atom count" is the stored natoms; the first half does not.)
C1_MismatchRejected ==
    [][(mol_call'.op \in {"coordinates", "elements_list"} /\ mol_call'.arglen # natoms)
        => (mol_call'.raised = "ValueError"
            /\ UNCHANGED <<coordinates, elements_list, natoms>>)]_vars

\* a field of a geometry line: the characters from..to of the line
Field(line, from, to) == SubSeq(line, from, to)

Digits == {"0", "1", "2", "3", "4", "5", "6", "7", "8", "9"}

\* text right-justified in a field: spaces, then text that holds no space
RightJustified(field) ==
    \E k \in 0..Len(field) - 1 :
        /\ \A i \in 1..k : field[i] = " "
        /\ \A i \in k + 1..Len(field) : field[i] # " "

\* text left-justified in a field: text that holds no space, then spaces
LeftJustified(field) ==
    \E k \in 1..Len(field) :
        /\ \A i \in 1..k : field[i] # " "
        /\ \A i \in k + 1..Len(field) : field[i] = " "

\* a number with exactly six digits after its point, at the end of the field
SixDecimals(field) ==
    /\ Len(field) > Decimals + 1
    /\ field[Len(field) - Decimals] = "."
    /\ \A i \in Len(field) - Decimals + 1..Len(field) : field[i] \in Digits
    /\ field[Len(field) - Decimals - 1] \in Digits

\* one line of the geometry, as the claim describes it, for element elem
WellFormedLine(line, elem) ==
    /\ Len(line) = ElementWidth + 3 * (1 + CoordinateWidth)
    /\ Field(line, 1, ElementWidth) = LJust(PeriodicTableElement(elem), ElementWidth)
    /\ LeftJustified(Field(line, 1, ElementWidth))
    /\ \A k \in 0..2 :
          LET start == ElementWidth + k * (1 + CoordinateWidth) + 1
              field == Field(line, start + 1, start + CoordinateWidth)
          IN  /\ line[start] = " "
              /\ RightJustified(field)
              /\ SixDecimals(field)

\* C7: xyz_geometry() returns exactly one line per atom, in atom order, each
\* the element left-justified to width 5 followed by x, y, z with exactly 6
\* decimals right-justified in width 25, joined by single spaces.
C7_OneLinePerAtom ==
    mol_call.op = "xyz_geometry" =>
        /\ mol_call.raised = "none"
        /\ Len(mol_call.lines) = Len(elements_list)
        /\ Len(mol_call.lines) = Len(coordinates)
        /\ \A i \in 1..Len(mol_call.lines) :
              WellFormedLine(mol_call.lines[i], elements_list[i])

\* C7 on the molecules whose two lists have the same length: the case the
\* constructor and the two list setters alone keep
C7_ConsistentMoleculeCase ==
    (mol_call.op = "xyz_geometry" /\ Len(coordinates) = Len(elements_list)) =>
        /\ mol_call.raised = "none"
        /\ Len(mol_call.lines) = Len(coordinates)
        /\ \A i \in 1..Len(mol_call.lines) :
              WellFormedLine(mol_call.lines[i], elements_list[i])

\* --------------------------------------------------------------------------
\* Claims about the jobs and the batch (checked under Spec and SpecReport)
\* --------------------------------------------------------------------------

PriorFS == [dirs |-> dirs, files |-> prior, cwd |-> cwd]
Jobs == DOMAIN computations
Started == DOMAIN pool

\* C2: for a job whose output file holds the success marker of a prior run,
\* run() does not start the external program again, and the output file
\* stays as the prior run left it.
C2_CompletedJobNotRerun ==
    \A i \in Started :
        HasMarker(PriorFS, OutputFile(computations[i])) =>
            /\ invocations[i] = 0
            /\ files[OutputFile(computations[i])] = prior[OutputFile(computations[i])]

\* C8: a run() that started the external program and found no success
\* marker afterwards does not return as if the job had finished: it raises.
C8_NoMarkerIsAnError ==
    \A i \in Started :
        (pool[i].state = "returned" /\ invocations[i] > 0) => pool[i].left_marker

\* the report main wrote in this run: the lines after the header
ReportPath == PathJoin(cwd, OutputFileArg)
ReportWritten == pc = "done" \/ (pc = "crashed" /\ error.stage = "print")
ReportRowLines ==
    IF ReportWritten /\ FileExists(FS, ReportPath) /\ files[ReportPath].kind = "report"
    THEN Tail(files[ReportPath].lines)
    ELSE <<>>

RunEnded == pc \in {"done", "crashed"}

\* job i has a valid result: its run left the marker and a parseable output
Succeeded(i) ==
    /\ i \in Started
    /\ pool[i].state = "returned"
    /\ pool[i].left_marker
    /\ Parseable(FS, OutputFile(computations[i]))
    /\ ~RowRaises(ListEnergies[i])

HasRow(i) ==
    \E k \in DOMAIN ReportRowLines :
        ReportRowLines[k] = RowLine(ListFilenames[i],
                                    files[OutputFile(computations[i])].scfenergy[1],
                                    ListEnergies[i])

\* C3: when a job of the batch fails (its computation failed or its output
\* cannot be parsed), the batch still yields the results of the other jobs:
\* once the run has ended, every job with a valid result has its row.
C3_SiblingsKeepTheirResults ==
    (RunEnded /\ error.stage \in {"none", "collect"}) =>
        \A i \in Jobs : Succeeded(i) => HasRow(i)

\* the row of job i: its name, its own log's energies, and the energy the
\* external program computes for its own geometry
OwnRow(i) ==
    LET file == LogLibrary[input_files[i]]
        refined == RefinedEnergy[input_files[i]]
    IN  file.stem \o <<"\t">>
        \o Join(<<"\t">>,
                <<IntToText(Convertor(file.scfenergy)),
                  IntToText(Convertor(file.enthalpy[1])),
                  IntToText(Convertor(file.freeenergy[1])),
                  IntToText(Convertor(refined)),
                  IntToText(Convertor(refined + (file.enthalpy[1] - file.scfenergy))),
                  IntToText(Convertor(refined + (file.freeenergy[1] - file.scfenergy)))>>)

FullLog(i) ==
    /\ LogLibrary[input_files[i]].enthalpy # NoNumber
    /\ LogLibrary[input_files[i]].freeenergy # NoNumber

\* C4: whatever the order in which the jobs complete, the report holds
\* exactly one row per job, in submission order, each row pairing the job's
\* name with its own original energies and its own refined energy.
C4_RowsInSubmissionOrder ==
    RunEnded =>
        /\ Len(ReportRowLines) = Len(input_files)
        /\ \A i \in DOMAIN ReportRowLines : FullLog(i) => ReportRowLines[i] = OwnRow(i)

\* C5: setup() called a second time on a job (directory and input file
\* exist) succeeds as it did the first time and leaves the same input file.
AfterSetup == pc \notin {"construct", "setup"}
C5_SetupIdempotent ==
    (runs >= 2 /\ AfterSetup) =>
        /\ error.stage # "setup"
        /\ \A i \in Jobs :
              /\ InputFile(computations[i]) \in DOMAIN prior
              /\ prior[InputFile(computations[i])].kind = "script"
              /\ files[InputFile(computations[i])] = prior[InputFile(computations[i])]

\* C9: no two jobs of a batch share a working directory; a batch whose
\* inputs give a duplicate job name is not built.
C9_DistinctWorkingDirectories ==
    \A i, j \in Jobs : i # j => JobPath(computations[i]) # JobPath(computations[j])

\* a line that names the solvent: a solvation directive
NamesSolvent(line) == \E k \in DOMAIN line : line[k] = orca_args.solvent
SolvationLines(lines) == {k \in DOMAIN lines : NamesSolvent(lines[k])}

\* C10: the input script setup() wrote holds a solvation block if and only
\* if the solvent is set, and then directly before the geometry and not in
\* the header lines.
C10_SolvationBlock ==
    \A i \in Jobs :
        LET path == InputFile(computations[i])
        IN  (AfterSetup /\ FileExists(FS, path) /\ files[path].kind = "script") =>
                LET lines == files[path].lines
                    geometry == XyzGeometry(computations[i].molecule.coordinates,
                                            computations[i].molecule.elements_list)
                IN  /\ (SolvationLines(lines) # {}) <=> (orca_args.solvent # None)
                    /\ \A k \in SolvationLines(lines) :
                          /\ k > HeaderLines
                          /\ \E g \in k + 1..Len(lines) :
                                /\ SubSeq(lines, g, g + Len(geometry) - 1) = geometry
                                /\ \A m \in k + 1..g - 1 : m \in SolvationLines(lines)

\* C6: every row of the report gives, as refined enthalpy, the refined SCF
\* energy plus (original enthalpy - original SCF energy), and as refined
\* free energy the refined SCF energy plus (original free energy -
\* original SCF energy), each converted to the report's unit.
C6_CorrectionsTransplanted ==
    \A i \in DOMAIN ReportRowLines :
        LET file == LogLibrary[input_files[i]]
            refined == scf_energies[i]
        IN  ReportRowLines[i] =
                file.stem \o <<"\t">>
                \o Join(<<"\t">>,
                        <<IntToText(Convertor(file.scfenergy)),
                          IntToText(Convertor(file.enthalpy[1])),
                          IntToText(Convertor(file.freeenergy[1])),
                          IntToText(Convertor(refined)),
                          IntToText(Convertor(refined + (file.enthalpy[1] - file.scfenergy))),
                          IntToText(Convertor(refined + (file.freeenergy[1] - file.scfenergy)))>>)

\* a report with two rows has been written, the second for another log
\* and another refined energy than the first
C6_TwoRowsReported ==
    /\ pc = "done"
    /\ Len(ReportRowLines) >= 2
    /\ input_files[1] # input_files[2]
    /\ scf_energies[1] # scf_energies[2]

\* --------------------------------------------------------------------------
\* Claims about the input script, the report and the job's names
\* --------------------------------------------------------------------------

\* the input script of job i has been written
ScriptWritten(i) ==
    /\ AfterSetup
    /\ FileExists(FS, InputFile(computations[i]))
    /\ files[InputFile(computations[i])].kind = "script"

\* a line that holds the word
Holds(line, word) == \E k \in DOMAIN line : line[k] = word

\* C11: the input script setup() wrote is, in this order, the header naming
\* the functional and the basis set, the optional solvent block, the
\* geometry (one line per atom, in atom order), the geometry terminator and
\* a trailing blank line: functional and basis set stand before the geometry
\* and only blank lines, at most two, follow it.
C11_ScriptOrder ==
    \A i \in Jobs :
        ScriptWritten(i) =>
            LET lines == files[InputFile(computations[i])].lines
                geometry == XyzGeometry(computations[i].molecule.coordinates,
                                        computations[i].molecule.elements_list)
                n == Len(geometry)
            IN  \E g \in 1..Len(lines) :
                    /\ SubSeq(lines, g, g + n - 1) = geometry
                    /\ \E k \in 1..g - 1 : Holds(lines[k], orca_args.functional)
                    /\ \E k \in 1..g - 1 : Holds(lines[k], orca_args.basisset)
                    /\ Len(lines) - (g + n - 1) <= 2
                    /\ \A m \in g + n..Len(lines) : lines[m] = <<>>

\* C12: writing the report is all-or-nothing: when it fails (an error while
\* a row is computed or converted), a file that was at the output path is
\* left as it was, and no file with only the header or only some of the
\* rows is left behind.
C12_ReportAllOrNothing ==
    (pc = "crashed" /\ error.stage = "print") =>
        IF ReportPath \in DOMAIN prior
        THEN files[ReportPath] = prior[ReportPath]
        ELSE ~FileExists(FS, ReportPath)

\* the text holds a space
HasSpace(text) == \E k \in DOMAIN text : text[k] = " "

\* the last component of a path: what follows its last "/"
DirName(job) == SubSeq(JobPath(job), Len(job.basedir) + 2, Len(JobPath(job)))

\* C13: for every job, the jobs main builds included, neither the name of
\* the working directory nor the names of the input and output files hold a
\* space: every space of the job name has become an underscore.
C13_NoSpaceInNames ==
    \A i \in Jobs :
        /\ ~HasSpace(DirName(computations[i]))
        /\ ~HasSpace(computations[i].filenames.input)
        /\ ~HasSpace(computations[i].filenames.output)

\* C14: two jobs with the same base directory and the same name have the
\* same working-directory path, whatever their job_id, molecule and
\* chemistry parameters.
C14_PathFromBasedirAndName ==
    \A i, j \in Jobs :
        (computations[i].basedir = computations[j].basedir
         /\ computations[i].name = computations[j].name)
            => JobPath(computations[i]) = JobPath(computations[j])

\* --------------------------------------------------------------------------
\* Claims about the order of the batch's steps
\* --------------------------------------------------------------------------

\* the pool's map has returned in this run
PoolReturned == Started # {} /\ pc # "pool"

\* C15: in one run of the batch, for each job whose output did not hold the
\* success marker when its run() was called, the external program is
\* started exactly once, and the map returns only after every job's program
\* has ended.
C15_InvokedExactlyOnce ==
    \A i \in Started :
        /\ invocations[i] <= 1
        /\ PoolReturned =>
              /\ pool[i].state = "returned"
              /\ ~pool[i].found_marker => invocations[i] = 1

\* the map has returned for two jobs, neither complete beforehand, whose
\* programs ended in one order or the other
C15_TwoJobsRun ==
    /\ pc = "collect"
    /\ Len(pool) = 2
    /\ \A i \in Started : ~pool[i].found_marker /\ invocations[i] = 1
    /\ pool[1].left_marker /\ ~pool[2].left_marker

\* the SCF energy of job i has been extracted in this run
Extracted(i) ==
    /\ pc \in {"print", "done"} \/ (pc = "crashed" /\ error.stage = "print")
    /\ i \in DOMAIN scf_energies

\* C16: the results of a job are extracted only when the job is completed:
\* its setup was done before its run started, its run has returned and its
\* output holds the success marker.
C16_ExtractedOnlyWhenCompleted ==
    /\ \A i \in Started :
          pool[i].state # "queued" => FileExists(FS, InputFile(computations[i]))
    /\ \A i \in Jobs :
          Extracted(i) =>
              /\ pool[i].state = "returned"
              /\ invocations[i] > 0
              /\ HasMarker(FS, OutputFile(computations[i]))

\* C17: when orca_args has no "dispersion" key (the jobs main builds),
\* build_header succeeds and setup_computation does not fail.
C17_NoDispersionKeySetupSucceeds ==
    ~HasKey(orca_args, "dispersion") => ~(pc = "crashed" /\ error.stage = "setup")

\* C18: after every job operation, on success and on error, the current
\* directory is the base directory, and the report is written to the
\* output path resolved against the directory the program was started in.
C18_WorkingDirectoryRestored ==
    /\ cwd = BaseDir
    /\ ReportWritten =>
          /\ FileExists(FS, PathJoin(BaseDir, OutputFileArg))
          /\ files[PathJoin(BaseDir, OutputFileArg)].kind = "report"

====
